---- MODULE Spec2Model ----
(***************************************************************************)
(* FlexOne backend (src/backend/application.py): a FastAPI service that    *)
(* relays chat conversations to an LLM provider and optionally injects a   *)
(* knowledge document (doc.json) into the system prompt.                   *)
(*                                                                         *)
(* Every route is an `async def` that never awaits: the provider call is   *)
(* the blocking `client.chat.completions.create`.  One handler therefore   *)
(* occupies the event loop from its first statement to its return; `pc`    *)
(* is the position of the handler that holds the loop.                     *)
(*                                                                         *)
(* Encodings.  Optional values are sets: {} is Python's None, {v} is v.    *)
(* A request field is [given, val]: given = FALSE when the caller left the *)
(* field out.  Texts are sequences of string tokens, so concatenation is   *)
(* \o.  Temperatures are in tenths (7 is 0.7).                             *)
(***************************************************************************)
EXTENDS Integers, Sequences, FiniteSets, TLC

VARIABLES
    KNOWLEDGE_BASE,   \* the global of line 40
    KB_LOADED,        \* the global of line 41
    lastLoad,         \* history: the document before the last load, the one it parsed
    pc,               \* "idle", "calling" (provider call in flight), "done"
    req,              \* the request being handled
    sent,             \* the arguments of the provider call
    loadedAtCall,     \* history: KB_LOADED when the call was issued
    attempts,         \* HTTP requests the client has made for this call
    outcome,          \* what the provider call gave the handler
    resp              \* the HTTP response

vars == <<KNOWLEDGE_BASE, KB_LOADED, lastLoad, pc, req, sent, loadedAtCall,
          attempts, outcome, resp>>

(***************************************************************************)
(* Bounds                                                                  *)
(***************************************************************************)
MaxMsgs == 2
MaxCats == 2

(***************************************************************************)
(* Python values                                                           *)
(***************************************************************************)
None == {}
Some(v) == {v}
Val(o) == CHOOSE v \in o : TRUE

\* bool(x) for an optional number
TruthyNum(o) == o # {} /\ Val(o) # 0

\* bool(x) for an optional bool
TruthyBool(o) == o # {} /\ Val(o)

\* `x or d`
PyOr(o, d) == IF TruthyNum(o) THEN o ELSE Some(d)

\* bool(x) for an optional string: None and "" are falsy
TruthyStr(o) == o # {} /\ Val(o) # ""

\* `x or d` for an optional string
PyOrStr(o, d) == IF TruthyStr(o) THEN o ELSE Some(d)

\* `a and b` with a an optional bool and b a bool
PyAnd(a, b) == IF TruthyBool(a) THEN Some(b) ELSE a

Unset == [given |-> FALSE, val |-> None]
Given(o) == [given |-> TRUE, val |-> o]

\* pydantic / FastAPI default for a field the caller left out
Parse(field, default) == IF field.given THEN field.val ELSE Some(default)

(***************************************************************************)
(* Knowledge documents: what json.load can return for doc.json.            *)
(*   {}                                       top "object", n 0            *)
(*   {"knowledge_base": {"categories": {..}}} top "object", n 1            *)
(*   ["x"]                                    top "array",  n 1            *)
(* n is the number of top-level members, cats the category names in file   *)
(* order.                                                                  *)
(***************************************************************************)
CategoryNames == <<"setup", "billing", "network", "faq">>

EmptyObject == [top |-> "object", n |-> 0, cats |-> <<>>]
ArrayDoc == [top |-> "array", n |-> 1, cats |-> <<>>]
ObjectDoc(k) == [top |-> "object", n |-> 1, cats |-> SubSeq(CategoryNames, 1, k)]

Docs == {EmptyObject, ArrayDoc} \cup {ObjectDoc(k) : k \in 1..MaxCats}

\* bool(KNOWLEDGE_BASE): an empty dict or list is falsy
DocTruthy(d) == d.n > 0

\* what open("doc.json") / json.load meet on disk
Files == {[kind |-> "absent", doc |-> EmptyObject],
          [kind |-> "invalid", doc |-> EmptyObject],
          [kind |-> "unreadable", doc |-> EmptyObject]}
         \cup {[kind |-> "json", doc |-> d] : d \in Docs}

\* the exception load_knowledge_base meets, "" when none
LoadRaises(f) ==
    CASE f.kind = "absent" -> "FileNotFoundError"
      [] f.kind = "invalid" -> "JSONDecodeError"
      [] f.kind = "unreadable" -> "PermissionError"
      [] OTHER -> ""

\* a slip: the except clauses drop the document and leave the flag
load_knowledge_base_clobber(kb, loaded, f) ==
    CASE LoadRaises(f) = "" ->
            [kb |-> f.doc, loaded |-> TRUE, raised |-> ""]
      [] LoadRaises(f) \in {"FileNotFoundError", "JSONDecodeError"} ->
            [kb |-> EmptyObject, loaded |-> loaded, raised |-> ""]
      [] OTHER ->
            [kb |-> kb, loaded |-> loaded, raised |-> LoadRaises(f)]

\* load_knowledge_base(): the globals after the call, and the exception
\* that escapes it ("" when none)
load_knowledge_base(kb, loaded, f) ==
    CASE LoadRaises(f) = "" ->
            [kb |-> f.doc, loaded |-> TRUE, raised |-> ""]
      [] LoadRaises(f) \in {"FileNotFoundError", "JSONDecodeError"} ->
            [kb |-> kb, loaded |-> FALSE, raised |-> ""]
      [] OTHER ->
            [kb |-> kb, loaded |-> loaded, raised |-> LoadRaises(f)]

(***************************************************************************)
(* Texts and prompt rendering                                              *)
(***************************************************************************)
base_prompt == <<"You are FlexOne AI Assistant ... Be supportive and informative!">>

KBHeader == <<"\n\nKnowledge Base Context:\n">>

RECURSIVE DumpsMembers(_, _)
DumpsMembers(cats, i) ==
    IF i > Len(cats) THEN <<>>
    ELSE (IF i > 1 THEN <<",">> ELSE <<>>)
         \o <<"\"", cats[i], "\": ", "{...}">>
         \o DumpsMembers(cats, i + 1)

\* json.dumps(doc, indent=2)
Dumps(d) ==
    CASE d.top = "array" -> <<"[", "\"x\"", "]">>
      [] d.top = "object" /\ d.n = 0 -> <<"{}">>
      [] OTHER -> <<"{", "\"knowledge_base\": ", "{", "\"categories\": ", "{">>
                  \o DumpsMembers(d.cats, 1) \o <<"}", "}", "}">>

\* the f-string of lines 107 and 301
KnowledgeContext(kb) == KBHeader \o Dumps(kb)

\* create_system_prompt()
create_system_prompt(kb, loaded) ==
    IF loaded /\ DocTruthy(kb) THEN base_prompt \o KnowledgeContext(kb)
    ELSE base_prompt

(***************************************************************************)
(* Messages and requests                                                   *)
(***************************************************************************)
Roles == {"user", "assistant", "system"}

Msg(r, c) == [role |-> r, content |-> c]

\* the caller's text of the i-th message
Texts == <<"m1", "m2", "m3", "m4">>

Conv(roles) == [i \in 1..Len(roles) |-> Msg(roles[i], <<Texts[i]>>)]

RoleSeqs == UNION {[1..n -> Roles] : n \in 1..MaxMsgs}

\* the conversation of the single-message endpoints
Single == <<Msg("user", <<Texts[1]>>)>>

DefaultModel == "gpt-3.5-turbo"
DefaultTemperature == 7
DefaultMaxTokens == 1500

\* the generation parameters a caller sends: none, or all three with the
\* smallest values the data model allows, or all three with ordinary ones
Params(m, t, mt) == [model |-> m, temperature |-> t, max_tokens |-> mt]

ParamChoices ==
    {Params(Unset, Unset, Unset),
     Params(Given(Some("gpt-4")), Given(Some(0)), Given(Some(1))),
     Params(Given(Some("gpt-4")), Given(Some(15)), Given(Some(200)))}

\* use_knowledge_base in a JSON body: left out, false, or null
FlagFields == {Unset, Given(Some(FALSE)), Given(None)}

\* use_kb in a query string: left out or false
QueryFlagFields == {Unset, Given(Some(FALSE))}

Request(ep, ms, p, fl) ==
    [model |-> p.model, temperature |-> p.temperature,
     max_tokens |-> p.max_tokens, ep |-> ep, messages |-> ms,
     flag |-> fl, name |-> ""]

NoReq == Request("", <<>>, Params(Unset, Unset, Unset), Unset)

ChatEps == {"/chat", "/chat/details", "/chat/kb", "/chat/simple"}

\* any(msg["role"] == "system" for msg in messages)
HasSystem(ms) == \E i \in DOMAIN ms : ms[i].role = "system"

\* the message the `for ... break` loop of lines 298-302 stops at
FirstSystem(ms) ==
    CHOOSE i \in DOMAIN ms :
        ms[i].role = "system" /\ \A j \in 1..(i - 1) : ms[j].role # "system"

SystemMessage(kb, loaded) == Msg("system", create_system_prompt(kb, loaded))

\* messages.insert(0, {...})
InsertFirst(m, ms) == <<m>> \o ms

\* /chat/kb, lines 235-238: a list literal, system message first
chat_with_knowledge_base_messages(r, kb, loaded) ==
    <<SystemMessage(kb, loaded)>> \o r.messages

\* /chat/details, lines 282-302
chat_messages(r, kb, loaded) ==
    LET ms == r.messages
        use == Parse(r.flag, TRUE)
    IN IF TruthyBool(use) /\ loaded
       THEN IF ~HasSystem(ms)
            THEN InsertFirst(SystemMessage(kb, loaded), ms)
            ELSE IF loaded /\ DocTruthy(kb)
                 THEN [ms EXCEPT ![FirstSystem(ms)].content =
                                      @ \o KnowledgeContext(kb)]
                 ELSE ms
       ELSE ms

\* /chat, lines 352-365
chat_endpoint_messages(r, kb, loaded) ==
    LET ms == r.messages
    IN IF loaded
       THEN IF ~HasSystem(ms)
            THEN InsertFirst(SystemMessage(kb, loaded), ms)
            ELSE ms
       ELSE ms

\* /chat/simple, lines 412-419
simple_chat_messages(r, kb, loaded) ==
    LET ms == r.messages
        use == Parse(r.flag, TRUE)
    IN IF TruthyBool(use) /\ loaded
       THEN InsertFirst(SystemMessage(kb, loaded), ms)
       ELSE ms

\* the keyword arguments of client.chat.completions.create, per handler
chat_with_knowledge_base_call(r, kb, loaded) ==
    [model |-> PyOrStr(Parse(r.model, DefaultModel), DefaultModel),
     temperature |-> Parse(r.temperature, DefaultTemperature),
     max_tokens |-> Parse(r.max_tokens, DefaultMaxTokens),
     messages |-> chat_with_knowledge_base_messages(r, kb, loaded)]

chat_call(r, kb, loaded) ==
    [model |-> PyOrStr(Parse(r.model, DefaultModel), DefaultModel),
     temperature |-> Parse(r.temperature, DefaultTemperature),
     max_tokens |-> Parse(r.max_tokens, DefaultMaxTokens),
     messages |-> chat_messages(r, kb, loaded)]

chat_endpoint_call(r, kb, loaded) ==
    [model |-> PyOrStr(Parse(r.model, DefaultModel), DefaultModel),
     temperature |-> PyOr(Parse(r.temperature, DefaultTemperature), 7),
     max_tokens |-> PyOr(Parse(r.max_tokens, DefaultMaxTokens), 1500),
     messages |-> chat_endpoint_messages(r, kb, loaded)]

simple_chat_call(r, kb, loaded) ==
    [model |-> PyOrStr(Parse(r.model, DefaultModel), DefaultModel),
     temperature |-> Some(7),
     max_tokens |-> Some(1500),
     messages |-> simple_chat_messages(r, kb, loaded)]

NoCall == [model |-> None, temperature |-> None, max_tokens |-> None,
           messages |-> <<>>]

(***************************************************************************)
(* The provider client                                                     *)
(***************************************************************************)
\* OpenAI(api_key=...) is built without max_retries: the client's default
max_retries == 2

\* the exception classes of lines 5-12 and the builtins the handlers meet
Base(c) ==
    CASE c = "AuthenticationError" -> "APIStatusError"
      [] c = "RateLimitError" -> "APIStatusError"
      [] c = "BadRequestError" -> "APIStatusError"
      [] c = "NotFoundError" -> "APIStatusError"
      [] c = "InternalServerError" -> "APIStatusError"
      [] c = "APIStatusError" -> "APIError"
      [] c = "APITimeoutError" -> "APIConnectionError"
      [] c = "APIConnectionError" -> "APIError"
      [] c = "APIError" -> "Exception"
      [] c = "AttributeError" -> "Exception"
      [] c = "ValidationError" -> "Exception"
      [] c = "RuntimeError" -> "Exception"
      [] OTHER -> ""

RECURSIVE IsInstance(_, _)
IsInstance(c, k) ==
    IF c = k THEN TRUE
    ELSE IF Base(c) = "" THEN FALSE
    ELSE IsInstance(Base(c), k)

Err(c, code) == [class |-> c, status_code |-> code]

\* what one provider call can raise
ProviderErrors ==
    {Err("AuthenticationError", Some(401)), Err("RateLimitError", Some(429)),
     Err("BadRequestError", Some(400)), Err("NotFoundError", Some(404)),
     Err("APIStatusError", None),
     Err("APIConnectionError", None), Err("APITimeoutError", None),
     Err("RuntimeError", None)}

\* the failures the client sends again by itself
Retryable(e) ==
    \/ IsInstance(e.class, "APIConnectionError")
    \/ e.status_code # None /\ (Val(e.status_code) \in {408, 409, 429}
                                \/ Val(e.status_code) >= 500)

Usage(p, c, t) ==
    [present |-> TRUE, prompt_tokens |-> p, completion_tokens |-> c,
     total_tokens |-> t]

\* response.usage is None
NoUsage == [present |-> FALSE, prompt_tokens |-> None,
            completion_tokens |-> None, total_tokens |-> None]

Usages == {NoUsage, Usage(Some(3), Some(5), Some(8)),
           Usage(Some(3), Some(5), None)}

\* a completion: the text (None when omitted), the model that answered,
\* the usage record
Completions ==
    {[content |-> c, model |-> "gpt-3.5-turbo-0125", usage |-> u] :
        c \in {None, Some(<<"Hi">>)}, u \in Usages}

\* `content or ""`
ContentOrEmpty(c) == IF c # None /\ Val(c) # <<>> THEN Val(c) ELSE <<>>

(***************************************************************************)
(* Responses                                                               *)
(***************************************************************************)
Response(status, body) == [status |-> status, body |-> body]

HTTPException(status, detail) == Response(status, [detail |-> detail])

NoResp == Response(0, [detail |-> ""])

\* the except clauses of lines 258-270, 327-339 and 386-398, in order
ExceptClauses ==
    <<"AuthenticationError", "RateLimitError", "BadRequestError",
      "APIConnectionError", "APIStatusError", "Exception">>

\* the first clause that catches e
Caught(e) ==
    ExceptClauses[CHOOSE i \in DOMAIN ExceptClauses :
        /\ IsInstance(e.class, ExceptClauses[i])
        /\ \A j \in 1..(i - 1) : ~IsInstance(e.class, ExceptClauses[j])]

MapError(e) ==
    CASE Caught(e) = "AuthenticationError" -> HTTPException(401, "Invalid API key")
      [] Caught(e) = "RateLimitError" -> HTTPException(429, "Rate limit exceeded")
      [] Caught(e) = "BadRequestError" -> HTTPException(400, "str(e)")
      [] Caught(e) = "APIConnectionError" -> HTTPException(503, "Network error")
      [] Caught(e) = "APIStatusError" ->
            HTTPException(Val(PyOr(e.status_code, 500)), "str(e)")
      [] OTHER -> HTTPException(500, "Internal server error")

\* /chat/simple, lines 434-435
simple_chat_error(e) == HTTPException(500, "str(e)")

\* the handler's answer to a failed provider call
OnError(ep, e) == IF ep = "/chat/simple" THEN simple_chat_error(e) ELSE MapError(e)

\* response.usage.prompt_tokens etc. (lines 252-254 and 380-382)
UsageAttrs(u) ==
    [prompt_tokens |-> u.prompt_tokens,
     completion_tokens |-> u.completion_tokens,
     total_tokens |-> u.total_tokens]

\* /chat/kb, lines 247-256
chat_with_knowledge_base_result(r, out, loaded) ==
    IF ~out.usage.present
    THEN MapError(Err("AttributeError", None))
    ELSE Response(200, [model |-> out.model,
                        usage |-> UsageAttrs(out.usage),
                        response |-> ContentOrEmpty(out.content),
                        knowledge_base_used |-> Some(loaded)])

\* /chat/details, lines 312-325; ChatResponse wants a bool
chat_result(r, out, loaded) ==
    LET used == PyAnd(Parse(r.flag, TRUE), loaded)
    IN IF used = None
       THEN MapError(Err("ValidationError", None))
       ELSE Response(200, [model |-> out.model,
                           usage |-> UsageAttrs(out.usage),
                           response |-> ContentOrEmpty(out.content),
                           knowledge_base_used |-> used])

\* /chat, lines 375-384
chat_endpoint_result(r, out, loaded) ==
    IF ~out.usage.present
    THEN MapError(Err("AttributeError", None))
    ELSE Response(200, [model |-> out.model,
                        usage |-> UsageAttrs(out.usage),
                        response |-> ContentOrEmpty(out.content),
                        knowledge_base_used |-> Some(loaded)])

\* /chat/simple, lines 428-432
simple_chat_result(r, out, loaded) ==
    Response(200, [model |-> out.model,
                   response |-> ContentOrEmpty(out.content),
                   knowledge_base_used |-> PyAnd(Parse(r.flag, TRUE), loaded)])

CallOf(r, kb, loaded) ==
    CASE r.ep = "/chat" -> chat_endpoint_call(r, kb, loaded)
      [] r.ep = "/chat/details" -> chat_call(r, kb, loaded)
      [] r.ep = "/chat/kb" -> chat_with_knowledge_base_call(r, kb, loaded)
      [] OTHER -> simple_chat_call(r, kb, loaded)

ResultOf(r, out, loaded) ==
    CASE r.ep = "/chat" -> chat_endpoint_result(r, out, loaded)
      [] r.ep = "/chat/details" -> chat_result(r, out, loaded)
      [] r.ep = "/chat/kb" -> chat_with_knowledge_base_result(r, out, loaded)
      [] OTHER -> simple_chat_result(r, out, loaded)

(***************************************************************************)
(* Store readers                                                           *)
(***************************************************************************)
In(name, cats) == \E i \in DOMAIN cats : cats[i] = name

CategoryData(name) == <<name, "{...}">>

\* an exception no handler catches: the framework answers 500
Unhandled == Response(500, [detail |-> "Internal Server Error"])

\* GET /, lines 134-150
root(kb, loaded) ==
    Response(200, [message |-> "FlexOne API", knowledge_base_loaded |-> loaded])

\* GET /health, lines 154-159
health(kb, loaded) ==
    Response(200, [status |-> "ok", knowledge_base_loaded |-> loaded])

\* GET /knowledge-base, lines 163-183
get_knowledge_base_info(kb, loaded) ==
    IF ~loaded THEN Response(200, [loaded |-> FALSE])
    ELSE IF kb.top # "object" THEN Unhandled
    ELSE Response(200, [loaded |-> TRUE, product_name |-> "Unknown",
                        version |-> "Unknown", last_updated |-> "Unknown",
                        categories |-> kb.cats, common_queries |-> <<>>])

\* GET /knowledge-base/category/{category_name}, lines 198-218
get_category(name, kb, loaded) ==
    IF ~loaded THEN HTTPException(503, "Knowledge base not loaded")
    ELSE IF kb.top # "object" THEN Unhandled
    ELSE IF ~In(name, kb.cats)
         THEN Response(404, [detail |-> "Category not found", available |-> kb.cats])
    ELSE Response(200, [category |-> name, data |-> CategoryData(name)])

\* POST /knowledge-base/reload, lines 187-194, after load_knowledge_base
reload_knowledge_base(l) ==
    IF l.raised # "" THEN Unhandled
    ELSE Response(200, [message |-> IF l.loaded
                                    THEN "Knowledge base reloaded successfully"
                                    ELSE "Failed to reload knowledge base",
                        success |-> l.loaded])

(***************************************************************************)
(* State machine                                                           *)
(***************************************************************************)
NoOutcome == [out |-> [content |-> None, model |-> "", usage |-> NoUsage],
              ok |-> FALSE, err |-> Err("", None)]

\* the document json.load returned, None when the load did not get that far
Parsed(f) == IF LoadRaises(f) = "" THEN Some(f.doc) ELSE None

Load(pre, f) == [pre |-> pre, post |-> Parsed(f)]

\* module import: lines 40-41, then load_knowledge_base() of line 62; a
\* file that makes the load raise stops the import
Init ==
    /\ \E f \in Files :
        LET l == load_knowledge_base(EmptyObject, FALSE, f)
        IN /\ l.raised = ""
           /\ KNOWLEDGE_BASE = l.kb
           /\ KB_LOADED = l.loaded
           /\ lastLoad = Load(EmptyObject, f)
    /\ pc = "idle"
    /\ req = NoReq
    /\ sent = NoCall
    /\ loadedAtCall = FALSE
    /\ attempts = 0
    /\ outcome = NoOutcome
    /\ resp = NoResp

\* a slip: the handler declares `global KB_LOADED` and rebinds it to
\* `use_knowledge_base and KB_LOADED`
StartRebinding(r) ==
    /\ pc = "idle"
    /\ pc' = "calling"
    /\ req' = r
    /\ sent' = CallOf(r, KNOWLEDGE_BASE, KB_LOADED)
    /\ loadedAtCall' = KB_LOADED
    /\ attempts' = 1
    /\ KB_LOADED' = (TruthyBool(Parse(r.flag, TRUE)) /\ KB_LOADED)
    /\ UNCHANGED <<KNOWLEDGE_BASE, lastLoad, outcome, resp>>

\* a chat handler runs up to its provider call
Start(r) ==
    /\ pc = "idle"
    /\ pc' = "calling"
    /\ req' = r
    /\ sent' = CallOf(r, KNOWLEDGE_BASE, KB_LOADED)
    /\ loadedAtCall' = KB_LOADED
    /\ attempts' = 1
    /\ UNCHANGED <<KNOWLEDGE_BASE, KB_LOADED, lastLoad, outcome, resp>>

ChatEndpoint ==
    \E rs \in RoleSeqs, p \in ParamChoices, fl \in FlagFields :
        Start(Request("/chat", Conv(rs), p, fl))

Chat ==
    \E rs \in RoleSeqs, p \in ParamChoices, fl \in FlagFields :
        Start(Request("/chat/details", Conv(rs), p, fl))

ChatWithKnowledgeBase ==
    \E p \in ParamChoices :
        Start(Request("/chat/kb", Single, p, Unset))

\* /chat/simple takes no temperature and no max_tokens
SimpleChat ==
    \E p \in ParamChoices, fl \in QueryFlagFields :
        Start(Request("/chat/simple", Single,
                      Params(p.model, Unset, Unset), fl))

\* the client meets a retryable failure and sends the request again
ClientRetry ==
    /\ pc = "calling"
    /\ attempts <= max_retries
    /\ attempts' = attempts + 1
    /\ UNCHANGED <<KNOWLEDGE_BASE, KB_LOADED, lastLoad, pc, req, sent,
                   loadedAtCall, outcome, resp>>

\* create() raises: the handler's except clauses answer
ProviderRaises ==
    /\ pc = "calling"
    /\ \E e \in ProviderErrors :
        /\ Retryable(e) => attempts = max_retries + 1
        /\ outcome' = [NoOutcome EXCEPT !.err = e]
        /\ resp' = OnError(req.ep, e)
    /\ pc' = "done"
    /\ UNCHANGED <<KNOWLEDGE_BASE, KB_LOADED, lastLoad, req, sent,
                   loadedAtCall, attempts>>

\* create() returns: the handler builds its response
ProviderReturns ==
    /\ pc = "calling"
    /\ \E out \in Completions :
        /\ outcome' = [NoOutcome EXCEPT !.ok = TRUE, !.out = out]
        /\ resp' = ResultOf(req, out, KB_LOADED)
    /\ pc' = "done"
    /\ UNCHANGED <<KNOWLEDGE_BASE, KB_LOADED, lastLoad, req, sent,
                   loadedAtCall, attempts>>

\* a handler that makes no provider call runs from start to end
Serve(r, response) ==
    /\ pc = "idle"
    /\ pc' = "done"
    /\ req' = r
    /\ resp' = response
    /\ UNCHANGED <<sent, loadedAtCall, attempts, outcome>>

Named(ep, name) == [NoReq EXCEPT !.ep = ep, !.name = name]

Root ==
    /\ Serve(Named("/", ""), root(KNOWLEDGE_BASE, KB_LOADED))
    /\ UNCHANGED <<KNOWLEDGE_BASE, KB_LOADED, lastLoad>>

Health ==
    /\ Serve(Named("/health", ""), health(KNOWLEDGE_BASE, KB_LOADED))
    /\ UNCHANGED <<KNOWLEDGE_BASE, KB_LOADED, lastLoad>>

GetKnowledgeBaseInfo ==
    /\ Serve(Named("/knowledge-base", ""),
             get_knowledge_base_info(KNOWLEDGE_BASE, KB_LOADED))
    /\ UNCHANGED <<KNOWLEDGE_BASE, KB_LOADED, lastLoad>>

GetCategory ==
    /\ \E name \in {CategoryNames[i] : i \in 1..MaxCats} \cup {"unknown"} :
        Serve(Named("/knowledge-base/category", name),
              get_category(name, KNOWLEDGE_BASE, KB_LOADED))
    /\ UNCHANGED <<KNOWLEDGE_BASE, KB_LOADED, lastLoad>>

ReloadKnowledgeBase ==
    \E f \in Files :
        LET l == load_knowledge_base(KNOWLEDGE_BASE, KB_LOADED, f)
        IN /\ Serve(Named("/knowledge-base/reload", ""), reload_knowledge_base(l))
           /\ KNOWLEDGE_BASE' = l.kb
           /\ KB_LOADED' = l.loaded
           /\ lastLoad' = Load(KNOWLEDGE_BASE, f)

\* the response leaves; the loop takes the next request
Finish ==
    /\ pc = "done"
    /\ pc' = "idle"
    /\ req' = NoReq
    /\ sent' = NoCall
    /\ loadedAtCall' = FALSE
    /\ attempts' = 0
    /\ outcome' = NoOutcome
    /\ resp' = NoResp
    /\ UNCHANGED <<KNOWLEDGE_BASE, KB_LOADED, lastLoad>>

Next ==
    \/ ChatEndpoint
    \/ Chat
    \/ ChatWithKnowledgeBase
    \/ SimpleChat
    \/ ClientRetry
    \/ ProviderRaises
    \/ ProviderReturns
    \/ Root
    \/ Health
    \/ GetKnowledgeBaseInfo
    \/ GetCategory
    \/ ReloadKnowledgeBase
    \/ Finish

Spec == Init /\ [][Next]_vars

TypeOK ==
    /\ KNOWLEDGE_BASE \in Docs
    /\ KB_LOADED \in BOOLEAN
    /\ pc \in {"idle", "calling", "done"}
    /\ attempts \in 0..(max_retries + 1)

(***************************************************************************)
(* Properties                                                              *)
(***************************************************************************)
\* a chat handler has issued its provider call
Called == pc \in {"calling", "done"} /\ req.ep \in ChatEps

\* a chat handler has answered
Answered == pc = "done" /\ req.ep \in ChatEps

\* the request's use-knowledge-base flag: use_knowledge_base, use_kb, or
\* always true for /chat/kb
Requested(r) == r.ep = "/chat/kb" \/ TruthyBool(Parse(r.flag, TRUE))

SystemAt(ms) == {i \in DOMAIN ms : ms[i].role = "system"}

\* C1: on every chat endpoint, a successful response has
\* knowledge_base_used true exactly when the request's use-knowledge-base
\* flag was true and the store was loaded when the provider call was issued.
C1_KnowledgeBaseUsedIffRequestedAndLoaded ==
    (Answered /\ resp.status = 200) =>
        (TruthyBool(resp.body.knowledge_base_used)
            <=> (Requested(req) /\ loadedAtCall))

\* C2: on /chat and /chat/details, a conversation that has a system
\* message, with the store loaded and the flag true, goes to the provider
\* with exactly one system message, whose content is the caller's system
\* text followed by the rendered knowledge context.
C2_ExistingSystemMessageAugmented ==
    (/\ Called
     /\ req.ep \in {"/chat", "/chat/details"}
     /\ HasSystem(req.messages)
     /\ loadedAtCall
     /\ Requested(req))
    => /\ Cardinality(SystemAt(sent.messages)) = 1
       /\ \A i \in SystemAt(sent.messages) :
            sent.messages[i].content =
                req.messages[FirstSystem(req.messages)].content
                    \o KnowledgeContext(KNOWLEDGE_BASE)

\* C3: a conversation with no system message, with the store loaded and
\* the flag true, goes to the provider as one synthesized system message
\* (persona template, then the rendered knowledge context: the header and
\* the serialized document, for every loaded document) at index 0, followed
\* by the caller's messages unchanged and in order; the list has no second
\* system message.
C3_OneSystemMessagePrepended ==
    (/\ Called
     /\ ~HasSystem(req.messages)
     /\ loadedAtCall
     /\ Requested(req))
    => /\ Len(sent.messages) = Len(req.messages) + 1
       /\ sent.messages[1] =
            Msg("system", base_prompt \o KnowledgeContext(KNOWLEDGE_BASE))
       /\ \A i \in DOMAIN req.messages : sent.messages[i + 1] = req.messages[i]
       /\ SystemAt(sent.messages) = {1}

\* C4: a reload that fails because doc.json is absent or does not parse
\* leaves the store as it was: the same document and the same KB_LOADED.
C4_FailedReloadLeavesStore ==
    [][(/\ pc = "idle"
        /\ req'.ep = "/knowledge-base/reload"
        /\ resp'.status = 200
        /\ lastLoad'.post = None)
       => (KNOWLEDGE_BASE' = KNOWLEDGE_BASE /\ KB_LOADED' = KB_LOADED)]_vars

\* the documents a reader may meet: the one held before the last load and
\* the one that load parsed
LoadDocs == {lastLoad.pre} \cup lastLoad.post

\* what the handlers add for a document they read under `KNOWLEDGE_BASE`
\* being truthy (lines 106-107 and 297-301): the header and the serialized
\* document, nothing for a document with no members
RenderedContext(kb) == IF DocTruthy(kb) THEN KnowledgeContext(kb) ELSE <<>>

\* C5: whoever reads the store while KB_LOADED is true meets a whole
\* document that is the pre-load or the post-load one: the store holds
\* such a document, every knowledge context sent to the provider renders
\* such a document, and the category lists of /knowledge-base and
\* /knowledge-base/category/{name} are those of such a document.
C5_ReadersMeetPreOrPostDocument ==
    /\ KB_LOADED => KNOWLEDGE_BASE \in LoadDocs \cap Docs
    /\ (Called /\ loadedAtCall /\ sent.messages # req.messages) =>
          \E d \in LoadDocs \cap Docs :
              \/ /\ ~HasSystem(req.messages)
                 /\ sent.messages[1].content = base_prompt \o RenderedContext(d)
              \/ /\ HasSystem(req.messages)
                 /\ sent.messages[FirstSystem(req.messages)].content =
                        req.messages[FirstSystem(req.messages)].content
                            \o RenderedContext(d)
    /\ (pc = "done" /\ req.ep = "/knowledge-base" /\ resp.status = 200
            /\ resp.body.loaded) =>
          \E d \in LoadDocs \cap Docs : resp.body.categories = d.cats
    /\ (pc = "done" /\ req.ep = "/knowledge-base/category"
            /\ resp.status = 404) =>
          \E d \in LoadDocs \cap Docs : resp.body.available = d.cats
    /\ (pc = "done" /\ req.ep = "/knowledge-base/category"
            /\ resp.status = 200) =>
          \E d \in LoadDocs \cap Docs : In(resp.body.category, d.cats)

C5_Witness ==
    /\ pc = "done"
    /\ req.ep = "/chat/details"
    /\ HasSystem(req.messages)
    /\ loadedAtCall
    /\ sent.messages # req.messages
    /\ DocTruthy(lastLoad.pre)
    /\ lastLoad.post # None
    /\ lastLoad.pre # KNOWLEDGE_BASE
    /\ resp.status = 200

\* the status the error table gives a failed provider call
StatusFor(e) ==
    CASE e.class = "AuthenticationError" -> 401
      [] e.class = "RateLimitError" -> 429
      [] e.class = "BadRequestError" -> 400
      [] e.class \in {"APIConnectionError", "APITimeoutError"} -> 503
      [] IsInstance(e.class, "APIStatusError") ->
            IF e.status_code = None THEN 500 ELSE Val(e.status_code)
      [] OTHER -> 500

\* C6: on every chat endpoint a failed provider call is answered with the
\* one HTTP error of its kind (401, 429, 400, 503, the provider's status or
\* 500, else 500) and no chat body.
C6_ProviderFailureMappedByKind ==
    (Answered /\ outcome.err.class # "") =>
        resp.status = StatusFor(outcome.err)

\* the documented default max_tokens of an endpoint
DocumentedMaxTokens(ep) == IF ep = "/chat/simple" THEN 500 ELSE 1500

\* what the provider should get for a field: the caller's value when one
\* was supplied, else the default
Resolved(field, default) ==
    IF field.given /\ field.val # None THEN field.val ELSE Some(default)

\* C7: on every chat endpoint model, temperature and max_tokens reach the
\* provider as the caller's values when supplied (temperature 0 and
\* max_tokens 1 included), else as the documented defaults: gpt-3.5-turbo,
\* 0.7, and 500 for /chat/simple or 1500 for the others.
C7_ParametersResolved ==
    Called =>
        /\ sent.model = Resolved(req.model, "gpt-3.5-turbo")
        /\ sent.temperature = Resolved(req.temperature, 7)
        /\ sent.max_tokens = Resolved(req.max_tokens, DocumentedMaxTokens(req.ep))

\* C8: when the flag is false or the store is not loaded, the provider
\* gets the caller's conversation unchanged, on /chat, /chat/details,
\* /chat/simple, and on /chat/kb when the store is not loaded.
C8_ConversationForwardedUnmodified ==
    (Called /\ (~Requested(req) \/ ~loadedAtCall)) =>
        sent.messages = req.messages

\* C9: when the provider call succeeds the endpoint answers 200, with the
\* empty text for a missing content and each missing token count absent,
\* also when the provider left out its usage record.
C9_SuccessNeverBecomesError ==
    (Answered /\ outcome.ok) =>
        /\ resp.status = 200
        /\ resp.body.response = ContentOrEmpty(outcome.out.content)
        /\ req.ep # "/chat/simple" =>
              /\ resp.body.usage.prompt_tokens = outcome.out.usage.prompt_tokens
              /\ resp.body.usage.completion_tokens
                    = outcome.out.usage.completion_tokens
              /\ resp.body.usage.total_tokens = outcome.out.usage.total_tokens

\* C10: a chat request causes at most one request to the provider, by the
\* handler and by the client together.
C10_AtMostOneProviderRequest ==
    Called => attempts <= 1

\* a category lookup has answered
Looked == pc = "done" /\ req.ep = "/knowledge-base/category"

\* C11: in every store state GET /knowledge-base/category/{name} answers
\* 503 when the store is not loaded; otherwise 404 with the full list of
\* the loaded document's category names when the name is not one of them;
\* otherwise 200 with the name and that category's data.
C11_CategoryLookupAnswers ==
    Looked =>
        CASE ~KB_LOADED -> resp.status = 503
          [] KB_LOADED /\ ~In(req.name, KNOWLEDGE_BASE.cats) ->
                resp.status = 404 /\ resp.body.available = KNOWLEDGE_BASE.cats
          [] OTHER ->
                /\ resp.status = 200
                /\ resp.body.category = req.name
                /\ resp.body.data = CategoryData(req.name)

\* C12: chat requests do not block one another: while one request's
\* provider call is in flight, another chat request can start and issue its
\* own provider call, and a /health or a reload request can be served,
\* before the first call returns.
C12_RequestsNotSerialized ==
    (pc = "calling") =>
        /\ ENABLED ChatEndpoint
        /\ ENABLED Chat
        /\ ENABLED Health
        /\ ENABLED ReloadKnowledgeBase

ReadEps == {"/", "/health", "/knowledge-base", "/knowledge-base/category"}

\* C13: no chat endpoint and no read endpoint changes the store: every
\* step of such a handler leaves KNOWLEDGE_BASE and KB_LOADED as they were,
\* also when /chat/details appends knowledge context to a caller's system
\* message; a step that changes them is POST /knowledge-base/reload running
\* load_knowledge_base.
C13_OnlyLoadChangesStore ==
    [][/\ (req.ep \in ChatEps \cup ReadEps \/ req'.ep \in ChatEps \cup ReadEps)
            => (KNOWLEDGE_BASE' = KNOWLEDGE_BASE /\ KB_LOADED' = KB_LOADED)
       /\ (KNOWLEDGE_BASE' # KNOWLEDGE_BASE \/ KB_LOADED' # KB_LOADED)
            => /\ pc = "idle"
               /\ req'.ep = "/knowledge-base/reload"
               /\ \E f \in Files :
                    LET l == load_knowledge_base(KNOWLEDGE_BASE, KB_LOADED, f)
                    IN KNOWLEDGE_BASE' = l.kb /\ KB_LOADED' = l.loaded]_vars

C13_Witness ==
    /\ pc = "done"
    /\ req.ep = "/chat/details"
    /\ HasSystem(req.messages)
    /\ Requested(req)
    /\ sent.messages[FirstSystem(req.messages)].content =
            req.messages[FirstSystem(req.messages)].content
                \o KnowledgeContext(KNOWLEDGE_BASE)
    /\ KB_LOADED
    /\ KNOWLEDGE_BASE \in lastLoad.post
    /\ resp.status = 200

\* the text has the part somewhere in it
Includes(text, part) ==
    \E k \in 0..(Len(text) - Len(part)) :
        SubSeq(text, k + 1, k + Len(part)) = part

\* C14: whenever a chat endpoint's response reports knowledge_base_used
\* true, the message list sent to the provider for that request has a
\* system message whose content includes the serialized current knowledge
\* document, for every loaded document (an empty one too) and also when
\* the conversation already carried a system message.
C14_UsedImpliesDocumentSent ==
    (Answered /\ resp.status = 200 /\ TruthyBool(resp.body.knowledge_base_used))
    => \E i \in SystemAt(sent.messages) :
           Includes(sent.messages[i].content, Dumps(KNOWLEDGE_BASE))

====
